---- MODULE Spec2Model ----
(***************************************************************************)
(* scripts/get_changelog.py: print the release notes of one version of a   *)
(* changelog.  Text is a sequence of one-character strings; offsets are    *)
(* Python offsets (0-based, the character at offset i is text[i + 1]).     *)
(***************************************************************************)
EXTENDS Integers, Sequences, FiniteSets

VARIABLES pc, version, file, raw, base, suffix, text, m, found, start, nxt, end,
          stdout, stderr, status, exc

vars == <<pc, version, file, raw, base, suffix, text, m, found, start, nxt, end,
          stdout, stderr, status, exc>>

-----------------------------------------------------------------------------
(* Bounds of the explored inputs *)

\* a document is at most MaxLines lines of Lines ...
MaxLines == 3
\* ... or one version heading repeated up to MaxRepeat times
MaxRepeat == 21

-----------------------------------------------------------------------------
(* Character classes of Python's re module *)

\* \d
Digit == {"0", "1", "2", "3", "4", "5", "6", "7", "8", "9"}

\* A-Za-z
Letter ==
  {"a", "b", "c", "d", "e", "f", "g", "h", "i", "j", "k", "l", "m", "n", "o",
   "p", "q", "r", "s", "t", "u", "v", "w", "x", "y", "z",
   "A", "B", "C", "D", "E", "F", "G", "H", "I", "J", "K", "L", "M", "N", "O",
   "P", "Q", "R", "S", "T", "U", "V", "W", "X", "Y", "Z"}

\* [A-Za-z0-9.+-]
SuffixChar == Letter \cup Digit \cup {".", "+", "-"}

\* \s, and the characters str.strip() removes
Space == {" ", "\t", "\n", "\r", "\f"}

-----------------------------------------------------------------------------
(* Primitives on text *)

Max(S) == CHOOSE x \in S : \A y \in S : y <= x

Min(S) == CHOOSE x \in S : \A y \in S : x <= y

\* text[i]
At(t, i) == t[i + 1]

\* text[a:b]
Slice(t, a, b) == SubSeq(t, a + 1, b)

\* the literal lit stands in t at offset i
StartsWith(t, i, lit) ==
  /\ i + Len(lit) <= Len(t)
  /\ SubSeq(t, i + 1, i + Len(lit)) = lit

\* the length of the longest run of characters of class at offset i: what a
\* greedy class+ or class* consumes first
Span(t, i, class) ==
  Max({n \in 0..(Len(t) - i) : \A k \in 0..(n - 1) : At(t, i + k) \in class})

\* (?m)^ : the start of the text or right after a newline
AtLineStart(t, i) == i = 0 \/ At(t, i - 1) = "\n"

\* (?=\s|$) under (?m): a whitespace character follows, or the text ends
Lookahead(t, i) == i = Len(t) \/ At(t, i) \in Space

\* str.strip()
Strip(s) ==
  LET keep == {k \in 1..Len(s) : s[k] \notin Space}
  IN  IF keep = {} THEN <<>> ELSE SubSeq(s, Min(keep), Max(keep))

\* str.lstrip('v'): every leading 'v' goes
LStripV(s) == Slice(s, Span(s, 0, {"v"}), Len(s))

\* print(s): the text and a newline, one write
WriteLine(s) == s \o <<"\n">>

-----------------------------------------------------------------------------
(* Version parsing: re.fullmatch(r'(\d+\.\d+\.\d+)(?:-([A-Za-z0-9.+-]+))?') *)

\* the end of \d+\.\d+\.\d+ matched greedily at offset p, or -1
BaseEnd(t, p) ==
  LET d1 == Span(t, p, Digit)
      p2 == p + d1 + 1
      d2 == Span(t, p2, Digit)
      p3 == p2 + d2 + 1
      d3 == Span(t, p3, Digit)
  IN  IF /\ d1 >= 1 /\ StartsWith(t, p + d1, <<".">>)
         /\ d2 >= 1 /\ StartsWith(t, p2 + d2, <<".">>)
         /\ d3 >= 1
      THEN p3 + d3 ELSE -1

\* the end of the optional (?:-[A-Za-z0-9.+-]+) matched greedily at offset e
SuffixEnd(t, e) ==
  IF StartsWith(t, e, <<"-">>) /\ Span(t, e + 1, SuffixChar) >= 1
  THEN e + 1 + Span(t, e + 1, SuffixChar) ELSE e

\* group(2) of a match without the suffix group is None, which `if suffix`
\* treats as the empty string
None == <<>>

NoParse == [ok |-> FALSE, base |-> None, suffix |-> None]

\* re.fullmatch(...) of raw, with m.group(1) and m.group(2)
FullMatch(r) ==
  LET e == BaseEnd(r, 0)
  IN  IF e = -1 THEN NoParse
      ELSE IF e = Len(r) THEN [ok |-> TRUE, base |-> r, suffix |-> None]
      ELSE IF SuffixEnd(r, e) = Len(r) /\ SuffixEnd(r, e) > e
           THEN [ok |-> TRUE, base |-> Slice(r, 0, e),
                 suffix |-> Slice(r, e + 1, Len(r))]
      ELSE NoParse

\* raw = args.version.strip().lstrip('v')
Raw(v) == LStripV(Strip(v))

-----------------------------------------------------------------------------
(* Heading search *)

NoMatch == [start |-> -1, end |-> -1]

\* header_re without the lookahead (?=\s|$) after an explicit suffix
HeaderTailNoLookahead(t, p, b, s) ==
  IF s # None
  THEN LET lit == b \o <<"-">> \o s
       IN  IF StartsWith(t, p, lit) THEN p + Len(lit) ELSE -1
  ELSE IF ~StartsWith(t, p, b) THEN -1
  ELSE LET q == p + Len(b)
           run == IF StartsWith(t, q, <<"-">>) THEN Span(t, q + 1, SuffixChar)
                  ELSE 0
           ks == {k \in 1..run : Lookahead(t, q + 1 + k)}
       IN  IF ks # {} THEN q + 1 + Max(ks)
           ELSE IF Lookahead(t, q) THEN q
           ELSE -1

\* header_re without the optional suffix group when no suffix is given
HeaderTailNoWildcard(t, p, b, s) ==
  LET lit == IF s # None THEN b \o <<"-">> \o s ELSE b
  IN  IF StartsWith(t, p, lit) /\ Lookahead(t, p + Len(lit))
      THEN p + Len(lit) ELSE -1

\* what follows ^##\s+ in header_re, tried at offset p: the end of the match
\* or -1.  With a suffix the heading text is the literal base-suffix; without
\* one the optional suffix group takes the longest run first and gives
\* characters back until the lookahead holds.
HeaderTail(t, p, b, s) ==
  IF s # None
  THEN LET lit == b \o <<"-">> \o s
       IN  IF StartsWith(t, p, lit) /\ Lookahead(t, p + Len(lit))
           THEN p + Len(lit) ELSE -1
  ELSE IF ~StartsWith(t, p, b) THEN -1
  ELSE LET q == p + Len(b)
           run == IF StartsWith(t, q, <<"-">>) THEN Span(t, q + 1, SuffixChar)
                  ELSE 0
           ks == {k \in 1..run : Lookahead(t, q + 1 + k)}
       IN  IF ks # {} THEN q + 1 + Max(ks)
           ELSE IF Lookahead(t, q) THEN q
           ELSE -1

\* header_re tried at offset i: ^## then \s+ (longest run first, giving
\* characters back), then the tail
HeaderMatchAt(t, i, b, s) ==
  IF ~(AtLineStart(t, i) /\ StartsWith(t, i, <<"#", "#">>)) THEN -1
  ELSE LET ns == {n \in 1..Span(t, i + 2, Space) :
                    HeaderTail(t, i + 2 + n, b, s) # -1}
       IN  IF ns = {} THEN -1 ELSE HeaderTail(t, i + 2 + Max(ns), b, s)

\* header_re.search(text) taking the last match instead of the leftmost
SearchLast(t, b, s) ==
  LET is == {i \in 0..Len(t) : HeaderMatchAt(t, i, b, s) # -1}
  IN  IF is = {} THEN NoMatch
      ELSE [start |-> Max(is), end |-> HeaderMatchAt(t, Max(is), b, s)]

\* header_re.search(text): the leftmost match
Search(t, b, s) ==
  LET is == {i \in 0..Len(t) : HeaderMatchAt(t, i, b, s) # -1}
  IN  IF is = {} THEN NoMatch
      ELSE [start |-> Min(is), end |-> HeaderMatchAt(t, Min(is), b, s)]

\* the next-heading search without the \s+ after the marker
NextHeadingAnyMarker(t) ==
  LET is == {i \in 0..Len(t) :
               AtLineStart(t, i) /\ StartsWith(t, i, <<"#", "#">>)}
  IN  IF is = {} THEN -1 ELSE Min(is)

\* the next-heading search without (?m): only the start of the slice counts
NextHeadingNoMultiline(t) ==
  IF StartsWith(t, 0, <<"#", "#">>) /\ Span(t, 2, Space) >= 1 THEN 0 ELSE -1

\* re.search(r'(?m)^##\s+', t).start(), or -1 when there is no match
NextHeading(t) ==
  LET is == {i \in 0..Len(t) :
               /\ AtLineStart(t, i)
               /\ StartsWith(t, i, <<"#", "#">>)
               /\ Span(t, i + 2, Space) >= 1}
  IN  IF is = {} THEN -1 ELSE Min(is)

\* r'(?m)^##\s+(\d+\.\d+\.\d+(?:-[A-Za-z0-9.+-]+)?)' tried at offset i:
\* the span of group 1, or NoMatch
GenericMatchAt(t, i) ==
  IF ~(AtLineStart(t, i) /\ StartsWith(t, i, <<"#", "#">>)) THEN NoMatch
  ELSE LET ns == {n \in 1..Span(t, i + 2, Space) : BaseEnd(t, i + 2 + n) # -1}
       IN  IF ns = {} THEN NoMatch
           ELSE [start |-> i + 2 + Max(ns),
                 end |-> SuffixEnd(t, BaseEnd(t, i + 2 + Max(ns)))]

\* re.findall(...): group 1 of the successive non-overlapping matches, each
\* scan resuming where the previous match ended
RECURSIVE FindAllFrom(_, _)
FindAllFrom(t, pos) ==
  LET is == {i \in pos..Len(t) : GenericMatchAt(t, i) # NoMatch}
  IN  IF is = {} THEN <<>>
      ELSE LET g == GenericMatchAt(t, Min(is))
           IN  <<Slice(t, g.start, g.end)>> \o FindAllFrom(t, g.end)

FindAll(t) == FindAllFrom(t, 0)

\* found[:20]
ListLimit == 20

\* found instead of found[:20]
TakeAll(s, n) == s


Take(s, n) == SubSeq(s, 1, IF Len(s) < n THEN Len(s) ELSE n)

\* ", ".join(items)
RECURSIVE Join(_)
Join(items) ==
  IF Len(items) = 0 THEN <<>>
  ELSE IF Len(items) = 1 THEN items[1]
  ELSE items[1] \o <<",", " ">> \o Join(Tail(items))

\* the f-string written to sys.stderr
NotFoundMessage(r, f, fnd) ==
  <<"Version \"", r, "\" not found in ", f, ".\nAvailable: ",
    Join(Take(fnd, ListLimit)), "\n">>

-----------------------------------------------------------------------------
(* Reading the file: utf-8 with errors='replace', universal newlines *)

\* a byte that is not valid UTF-8, and U+FFFD which replaces it
BadByte == "xFF"

Replacement == "uFFFD"

\* one decoded character: an undecodable byte becomes U+FFFD, a carriage
\* return becomes the newline of its line ending
DecodeByte(b) ==
  IF b = BadByte THEN Replacement ELSE IF b = "\r" THEN "\n" ELSE b

\* Path.read_text(encoding='utf-8', errors='replace'): the line feed of a
\* "\r\n" pair is dropped, every other byte is decoded in place
Decode(bytes) ==
  LET kept == {k \in 1..Len(bytes) :
                 ~(bytes[k] = "\n" /\ k > 1 /\ bytes[k - 1] = "\r")}
      nth(j) == CHOOSE k \in kept : Cardinality({x \in kept : x <= k}) = j
  IN  [j \in 1..Cardinality(kept) |-> DecodeByte(bytes[nth(j)])]

-----------------------------------------------------------------------------
(* Inputs *)

V100 == <<"1", ".", "0", ".", "0">>

\* values of --version
Versions ==
  { V100,
    <<"v">> \o V100,
    <<"v", "v">> \o V100,
    <<"V">> \o V100,
    V100 \o <<"-", "a">>,
    <<" ", "v">> \o V100 \o <<"-", "a", "b", "\n">>,
    <<"1", ".", "0">>,
    V100 \o <<"-">>,
    V100 \o <<"-", "a", "!">>,
    <<"v", " ">> \o V100,
    <<>> }

Marker == <<"#", "#">>

\* lines a changelog file is made of
Lines ==
  { Marker \o <<" ">> \o V100,
    Marker \o <<" ">> \o V100 \o <<"-", "a">>,
    Marker \o <<"\t", " ">> \o V100 \o <<"-", "a", "b">>,
    Marker \o <<" ">> \o V100 \o <<" ", "d">>,
    Marker \o <<" ">> \o V100 \o <<"-", "a", "!">>,
    Marker,
    V100,
    <<" ">> \o Marker \o <<" ", "x">>,
    <<"#">> \o Marker \o <<" ", "s">>,
    <<"b", BadByte, "\r">> }

RepeatLines ==
  { Marker \o <<" ">> \o V100 \o <<"-", "a">> }

RECURSIVE JoinLines(_)
JoinLines(ls) ==
  IF Len(ls) = 0 THEN <<>>
  ELSE IF Len(ls) = 1 THEN ls[1]
  ELSE ls[1] \o <<"\n">> \o JoinLines(Tail(ls))

Files ==
  {JoinLines(ls) : ls \in UNION {[1..n -> Lines] : n \in 0..MaxLines}}
  \cup {JoinLines([k \in 1..n |-> l]) :
          l \in RepeatLines, n \in (ListLimit - 1)..MaxRepeat}

\* what read_text can return: the decoded content of a file
Texts == {Decode(bytes) : bytes \in Files}

-----------------------------------------------------------------------------
(* The script, statement by statement *)

\* a name the script has not bound yet
Unbound == <<"unbound">>

UnboundMatch == [start |-> -2, end |-> -2]

\* the state once argparse has returned (lines 7-10); offsets and the exit
\* status are -1 until they are set
Init ==
  /\ pc = "parse"
  /\ version \in Versions
  /\ file = "CHANGELOG.md"
  /\ raw = Unbound
  /\ base = Unbound
  /\ suffix = Unbound
  /\ text = Unbound
  /\ m = UnboundMatch
  /\ found = Unbound
  /\ start = -1
  /\ nxt = -1
  /\ end = -1
  /\ stdout = <<>>
  /\ stderr = <<>>
  /\ status = -1
  /\ exc = "none"

\* lines 12-17, the version does not match: raise ValueError, which ends the
\* process with status 1
InvalidVersion ==
  /\ pc = "parse"
  /\ ~FullMatch(Raw(version)).ok
  /\ raw' = Raw(version)
  /\ m' = NoMatch
  /\ exc' = "ValueError"
  /\ status' = 1
  /\ pc' = "raised"
  /\ UNCHANGED <<version, file, base, suffix, text, found, start, nxt, end,
                 stdout, stderr>>

\* lines 12-17, the version matches
ParseVersion ==
  /\ pc = "parse"
  /\ FullMatch(Raw(version)).ok
  /\ raw' = Raw(version)
  /\ m' = [start |-> 0, end |-> Len(Raw(version))]
  /\ base' = FullMatch(Raw(version)).base
  /\ suffix' = FullMatch(Raw(version)).suffix
  /\ pc' = "read"
  /\ UNCHANGED <<version, file, text, found, start, nxt, end,
                 stdout, stderr, status, exc>>

\* line 19
ReadText ==
  /\ pc = "read"
  /\ text' \in Texts
  /\ pc' = "search"
  /\ UNCHANGED <<version, file, raw, base, suffix, m, found, start, nxt, end,
                 stdout, stderr, status, exc>>

\* lines 22-27
SearchHeader ==
  /\ pc = "search"
  /\ m' = Search(text, base, suffix)
  /\ pc' = "searched"
  /\ UNCHANGED <<version, file, raw, base, suffix, text, found, start, nxt, end,
                 stdout, stderr, status, exc>>

\* lines 28-34 without sys.exit(1): the status of a normal end
NotFoundExitsZero ==
  /\ pc = "searched"
  /\ m = NoMatch
  /\ found' = FindAll(text)
  /\ stderr' = Append(stderr, NotFoundMessage(raw, file, FindAll(text)))
  /\ status' = 0
  /\ pc' = "exited"
  /\ UNCHANGED <<version, file, raw, base, suffix, text, m, start, nxt, end,
                 stdout, exc>>

\* lines 28-34
NotFound ==
  /\ pc = "searched"
  /\ m = NoMatch
  /\ found' = FindAll(text)
  /\ stderr' = Append(stderr, NotFoundMessage(raw, file, FindAll(text)))
  /\ status' = 1
  /\ pc' = "exited"
  /\ UNCHANGED <<version, file, raw, base, suffix, text, m, start, nxt, end,
                 stdout, exc>>

\* lines 36-40
EmitSection ==
  /\ pc = "searched"
  /\ m # NoMatch
  /\ LET s == m.end
         n == NextHeading(Slice(text, s, Len(text)))
         e == IF n # -1 THEN s + n ELSE Len(text)
     IN  /\ start' = s
         /\ nxt' = n
         /\ end' = e
         /\ stdout' = Append(stdout, WriteLine(Strip(Slice(text, s, e))))
  /\ status' = 0
  /\ pc' = "done"
  /\ UNCHANGED <<version, file, raw, base, suffix, text, m, found, stderr, exc>>

Next ==
  \/ InvalidVersion
  \/ ParseVersion
  \/ ReadText
  \/ SearchHeader
  \/ NotFound
  \/ EmitSection

Spec == Init /\ [][Next]_vars

-----------------------------------------------------------------------------
(* Vocabulary of the properties, stated on the characters of the text       *)
(* without the matching operators above                                     *)

\* offsets at which a line of t begins
LineStarts(t) == {0} \cup {j \in 1..Len(t) : t[j] = "\n"}

\* the characters of t at offsets a..b-1 are whitespace, and there is one
IsSpaceRun(t, a, b) == a < b /\ \A j \in (a + 1)..b : t[j] \in Space

\* s is <digits>.<digits>.<digits>
IsBaseText(s) ==
  \E p, q \in 2..(Len(s) - 1) :
    /\ p + 1 < q
    /\ s[p] = "." /\ s[q] = "."
    /\ \A k \in 1..Len(s) : k \notin {p, q} => s[k] \in Digit

\* s is a non-empty run of letters, digits, '.', '+', '-'
IsSuffixText(s) == Len(s) >= 1 /\ \A k \in 1..Len(s) : s[k] \in SuffixChar

\* s is <digits>.<digits>.<digits>[-suffix]
IsVersionText(s) ==
  \/ IsBaseText(s)
  \/ \E h \in 1..Len(s) :
       /\ s[h] = "-"
       /\ IsBaseText(SubSeq(s, 1, h - 1))
       /\ IsSuffixText(SubSeq(s, h + 1, Len(s)))

\* the characters of t from a line start i up to offset e read `##`,
\* whitespace, v
ReadsHeading(t, i, e, v) ==
  /\ i \in LineStarts(t)
  /\ e <= Len(t)
  /\ e - Len(v) - 2 > i
  /\ SubSeq(t, i + 1, i + 2) = <<"#", "#">>
  /\ IsSpaceRun(t, i + 2, e - Len(v))
  /\ SubSeq(t, e - Len(v) + 1, e) = v

\* whitespace or the end of the line follows offset e
EndsWord(t, e) == e = Len(t) \/ t[e + 1] \in Space

\* offsets of the headings `## v` followed by whitespace or end of line
ExactHeadings(t, v) ==
  {i \in LineStarts(t) :
     \E e \in i..Len(t) : ReadsHeading(t, i, e, v) /\ EndsWord(t, e)}

\* offsets of the headings `## b` or `## b-<suffix>` followed by whitespace
\* or end of line
SuffixedHeadings(t, b) ==
  {i \in LineStarts(t) :
     \E e \in i..Len(t) : \E k \in 1..(e - i) :
       /\ IsSuffixText(SubSeq(t, e - k + 1, e))
       /\ ReadsHeading(t, i, e, b \o <<"-">> \o SubSeq(t, e - k + 1, e))
       /\ EndsWord(t, e)}

WildcardHeadings(t, b) == ExactHeadings(t, b) \cup SuffixedHeadings(t, b)

\* the line of t that holds offset i ends at this offset
LineEnd(t, i) ==
  Min({j \in i..Len(t) : j = Len(t) \/ t[j + 1] = "\n"})

\* the section the script printed: the one write without print's newline
Printed == SubSeq(stdout[1], 1, Len(stdout[1]) - 1)

\* s is r without its leading and trailing whitespace
IsTrimOf(s, r) ==
  /\ s # <<>> => s[1] \notin Space /\ s[Len(s)] \notin Space
  /\ \E a \in 0..Len(r) :
       /\ a + Len(s) <= Len(r)
       /\ SubSeq(r, a + 1, a + Len(s)) = s
       /\ \A k \in 1..Len(r) : (k <= a \/ k > a + Len(s)) => r[k] \in Space

\* a line of s begins at offset k with `##` and a whitespace character
HeadingLineAt(s, k) ==
  /\ k \in LineStarts(s)
  /\ k + 3 <= Len(s)
  /\ SubSeq(s, k + 1, k + 2) = <<"#", "#">>
  /\ s[k + 3] \in Space

-----------------------------------------------------------------------------
(* C1: the printed section starts at the first character after the whole   *)
(* matched heading line, so that nothing standing on the heading line after *)
(* the version is printed.  The script starts the section at m.end(), the   *)
(* end of the version.                                                      *)
C1_SectionStartsAfterHeadingLine ==
  pc = "done" =>
    LET after == IF LineEnd(text, m.end) = Len(text) THEN Len(text)
                 ELSE LineEnd(text, m.end) + 1
    IN  IsTrimOf(Printed, Slice(text, after, end))

(* C8: a heading is matched only when the marker, the whitespace after it   *)
(* and the version stand on one line: the matched text holds no newline.    *)
C8_HeadingOnOneLine ==
  (pc = "searched" /\ m # NoMatch) =>
    \A j \in (m.start + 1)..m.end : text[j] # "\n"

(* C5: a version is accepted exactly when, without its surrounding          *)
(* whitespace and without at most one leading v or V, it is                 *)
(* <digits>.<digits>.<digits>[-suffix]; every other version is rejected.    *)
C5_AcceptsExactlyOneOptionalV ==
  pc # "parse" =>
    LET s == Strip(version)
        r == IF s # <<>> /\ s[1] \in {"v", "V"} THEN Tail(s) ELSE s
    IN  (pc # "raised") <=> IsVersionText(r)

-----------------------------------------------------------------------------
(* C2: for a version without suffix the match is the first heading, top to  *)
(* bottom, that reads `## <base>` or `## <base>-<suffix>` followed by        *)
(* whitespace or end of line; there is no match exactly when the document   *)
(* holds no such heading.  (Whitespace is the class \s throughout; that the  *)
(* heading stands on one line is the subject of C8.)                        *)
C2_FirstHeadingOfBase ==
  (pc = "searched" /\ suffix = None) =>
    LET hs == WildcardHeadings(text, base)
    IN  /\ hs = {} <=> m = NoMatch
        /\ hs # {} => m.start \in hs /\ \A i \in hs : m.start <= i

\* a suffixed heading is used although a plain heading of the base follows
C2_Witness ==
  /\ pc = "searched"
  /\ suffix = None
  /\ m.start \in SuffixedHeadings(text, base)
  /\ \E j \in ExactHeadings(text, base) : m.start < j

(* C3: for a version with a suffix the match is a heading that reads        *)
(* `## <base>-<suffix>` with exactly that suffix, followed by whitespace or  *)
(* end of line; when the document holds no such heading there is no match,  *)
(* nothing is printed and the run ends with the not-found status.           *)
C3_ExactSuffixOnly ==
  (pc \in {"searched", "exited", "done"} /\ suffix # None) =>
    LET hs == ExactHeadings(text, base \o <<"-">> \o suffix)
    IN  /\ hs # {} =>
             /\ m.start \in hs
             /\ ReadsHeading(text, m.start, m.end, base \o <<"-">> \o suffix)
             /\ EndsWord(text, m.end)
        /\ hs = {} => m = NoMatch /\ pc # "done" /\ stdout = <<>>
        /\ (hs = {} /\ pc = "exited") => status = 1

\* not found, although the document has the base without suffix and with a
\* longer suffix that begins with the requested one
C3_Witness ==
  /\ pc = "exited"
  /\ suffix # None /\ suffix # Unbound
  /\ ExactHeadings(text, base) # {}
  /\ \E i \in SuffixedHeadings(text, base) : \E e \in i..Len(text) :
       ReadsHeading(text, i, e, base \o <<"-">> \o suffix \o <<"b">>)

(* C4: the section ends at the start of the first line at or after its      *)
(* start that begins with `##` and a whitespace character, or at the end of *)
(* the document when there is none, and what is printed is that range       *)
(* without its leading and trailing whitespace.                             *)
C4_SectionEnd ==
  pc = "done" =>
    LET hs == {j \in start..Len(text) : HeadingLineAt(text, j)}
    IN  /\ start = m.end
        /\ end = IF hs = {} THEN Len(text) ELSE Min(hs)
        /\ IsTrimOf(Printed, Slice(text, start, end))
        /\ Len(stdout) = 1

\* the section runs over a `###` line up to a later heading
C4_Witness ==
  /\ pc = "done"
  /\ end < Len(text)
  /\ \E j \in LineStarts(text) :
       /\ start < j /\ j + 3 <= end
       /\ SubSeq(text, j + 1, j + 3) = <<"#", "#", "#">>

-----------------------------------------------------------------------------
(* C6: the steps come in the order validate, read, search, emit, and a run  *)
(* ends in one of three ways.  A version-format failure ends it before the  *)
(* document is read, with nothing written to either stream; a not-found     *)
(* failure writes one diagnostic to the error stream, nothing to standard   *)
(* output, and exits with a non-zero status; a match writes the section to  *)
(* standard output, once, nothing to the error stream, and exits with 0.    *)
Ended == pc \in {"raised", "exited", "done"}

C6_Outcome ==
  /\ pc = "raised" =>
       /\ text = Unbound /\ stdout = <<>> /\ stderr = <<>>
       /\ exc = "ValueError" /\ status > 0
  /\ pc = "exited" =>
       /\ text # Unbound /\ m = NoMatch
       /\ stdout = <<>> /\ Len(stderr) = 1
       /\ exc = "none" /\ status > 0
  /\ pc = "done" =>
       /\ text # Unbound /\ m # NoMatch
       /\ Len(stdout) = 1 /\ stderr = <<>>
       /\ exc = "none" /\ status = 0
  /\ ~Ended => stdout = <<>> /\ stderr = <<>> /\ exc = "none" /\ status = -1

C6_Step ==
  /\ <<pc, pc'>> \in {<<"parse", "raised">>, <<"parse", "read">>,
                      <<"read", "search">>, <<"search", "searched">>,
                      <<"searched", "exited">>, <<"searched", "done">>}
  /\ text' # text => pc = "read"
  /\ stdout' # stdout => pc' = "done"
  /\ stderr' # stderr => pc' = "exited"

-----------------------------------------------------------------------------
\* the offset of the first character after the whitespace that follows the
\* marker of the line at i
WordStart(t, i) ==
  Min({j \in (i + 2)..Len(t) : j = Len(t) \/ t[j + 1] \notin Space})

\* the ends of the version texts that the heading at line start i begins with
VersionEnds(t, i) ==
  LET p == WordStart(t, i)
  IN  {e \in p..LineEnd(t, p) :
         /\ IsVersionText(SubSeq(t, p + 1, e))
         /\ ReadsHeading(t, i, e, SubSeq(t, p + 1, e))}

\* offsets of the headings `## <digits>.<digits>.<digits>[-suffix]`
GenericHeadings(t) ==
  {i \in LineStarts(t) :
     /\ i + 2 <= Len(t)
     /\ SubSeq(t, i + 1, i + 2) = <<"#", "#">>
     /\ VersionEnds(t, i) # {}}

\* the full version text of the heading at i
VersionOf(t, i) == SubSeq(t, WordStart(t, i) + 1, Max(VersionEnds(t, i)))

\* the versions of the first 20 such headings, in document order
Listed(t) ==
  LET hs == GenericHeadings(t)
      nth(j) == CHOOSE i \in hs : Cardinality({x \in hs : x <= i}) = j
      n == IF Cardinality(hs) < 20 THEN Cardinality(hs) ELSE 20
  IN  [j \in 1..n |-> VersionOf(t, nth(j))]

(* C7: when no heading matches, the diagnostic lists the full version texts *)
(* of the headings `## <digits>.<digits>.<digits>[-suffix]` of the document, *)
(* in document order, and no more than the first 20 of them.                *)
C7_DiagnosticList ==
  pc = "exited" =>
    /\ Len(stderr) = 1
    /\ stderr[1][6] = Join(Listed(text))
    /\ Take(found, 20) = Listed(text)

\* not found in a document of more than 20 version headings
C7_Witness ==
  /\ pc = "exited"
  /\ Cardinality(GenericHeadings(text)) > 20

-----------------------------------------------------------------------------
(* C10: when the request `<base>-<suffix>` finds a heading, the request     *)
(* `<base>` on the same document finds one too, and it begins at or before  *)
(* the heading of the suffixed request.                                     *)
C10_BaseRequestFindsNoLater ==
  (pc = "searched" /\ suffix # None /\ m # NoMatch) =>
    /\ Search(text, base, None) # NoMatch
    /\ Search(text, base, None).start <= m.start

\* the request without suffix uses an earlier heading than the suffixed one
C10_Witness ==
  /\ pc = "searched"
  /\ suffix # None
  /\ m # NoMatch
  /\ Search(text, base, None) # NoMatch
  /\ Search(text, base, None).start < m.start

-----------------------------------------------------------------------------
(* C9 as claimed: no line of the printed section begins with `##` followed  *)
(* by whitespace.                                                           *)
C9_NoHeadingLinePrinted ==
  pc = "done" => \A k \in LineStarts(Printed) : ~HeadingLineAt(Printed, k)

(* C9 as amended: no line of the printed section after its first begins     *)
(* with `##` followed by whitespace; the first line can, when trimming the  *)
(* leading whitespace brings an indented `## `, or one that continues the   *)
(* heading line, to the front.                                              *)
C9_NoHeadingLineAfterFirst ==
  pc = "done" =>
    \A k \in LineStarts(Printed) : k > 0 => ~HeadingLineAt(Printed, k)

\* a printed section of several lines whose first line begins with `## `
C9_Witness ==
  /\ pc = "done"
  /\ HeadingLineAt(Printed, 0)
  /\ \E k \in LineStarts(Printed) : 0 < k /\ k < Len(Printed)

====
